---- MODULE Spec2Model ----
(***************************************************************************)
(* Model of news_alert.py: the alert-decision cycle run_once over the      *)
(* persisted state file (seen_ids, last_alert, sent_ids).                  *)
(*                                                                         *)
(* Scores are VADER compound scores in hundredths (0.6 is 60).  Times are  *)
(* epoch seconds.  A URL is an atomic string; hsha is SHA-1 idealised as   *)
(* collision free, a digest being the tagged text it was computed from.    *)
(***************************************************************************)
EXTENDS Integers, Sequences, FiniteSets, TLC

(* ------------------------------ CONFIG -------------------------------- *)
\* The watchlist in dict order, as the source ships it, and a configuration
\* with a second ticker, for what depends on the loop having a next ticker.
WATCHLIST == <<"NVDA">>
WATCHLIST2 == <<"NVDA", "AMD">>
LOOKBACK_MIN == 180
STRONG_POS == 60
STRONG_NEG == -60
CLUSTER_COUNT == 3
ALERT_COOLDOWN_MIN == 120
SENT_TTL_HOURS == 24
TOP_N == 5

(* ------------------------------ bounds -------------------------------- *)
\* entries one fetch returns at most
MaxItems == 3
\* cycles of run_once started at most
MaxCycles == 2
\* entries one fetch of the wider feed returns at most
MaxWide == 5

(* --------------------------- derived values --------------------------- *)
cooldownSeconds == ALERT_COOLDOWN_MIN * 60
lookbackSeconds == LOOKBACK_MIN * 60
ttlSeconds == SENT_TTL_HOURS * 3600

\* The clock reading at which the model starts: any instant later than one
\* TTL after the epoch (the program runs decades after 1970).
StartClock == ttlSeconds + lookbackSeconds
\* The time from one cycle to the next scheduled one: either side of the
\* cooldown and either side of the TTL.
ClockSteps == {cooldownSeconds - 1, cooldownSeconds, ttlSeconds, ttlSeconds + 1}

\* The kinds of entry the feeds are built from: URL, score, and publication
\* time relative to the start of the window (0 just inside, -1 just outside).
\* Strong positive and strong negative articles on the thresholds, one just
\* below the positive threshold, and an article met again with an older
\* timestamp.
Kinds ==
  << [url |-> "u1", score |-> STRONG_POS,     off |-> 0],
     [url |-> "u2", score |-> STRONG_POS,     off |-> 0],
     [url |-> "u1", score |-> STRONG_NEG,     off |-> 0],
     [url |-> "u2", score |-> STRONG_POS - 1, off |-> 0],
     [url |-> "u1", score |-> STRONG_POS,     off |-> -1] >>

\* A wider feed, for what depends on the scores and on the edges of the
\* window: strong positive articles well above the threshold, strong negative
\* ones on it, published on the lower edge of the window, one second inside,
\* at the cycle's clock reading, and two of them met also one second outside
\* the window and one second after the clock reading.
WideKinds ==
  << [url |-> "u1", score |-> 90,         off |-> 0],
     [url |-> "u2", score |-> 90,         off |-> 1],
     [url |-> "u3", score |-> STRONG_NEG, off |-> 0],
     [url |-> "u4", score |-> STRONG_NEG, off |-> 1],
     [url |-> "u5", score |-> STRONG_NEG, off |-> lookbackSeconds],
     [url |-> "u3", score |-> STRONG_NEG, off |-> -1],
     [url |-> "u4", score |-> STRONG_NEG, off |-> lookbackSeconds + 1] >>

VARIABLES
  watch,           \* the configured watchlist
  clock,           \* what now_ts() returns; a cycle is short, its readings agree
  disk,            \* content of state.json, or NoFile
  state,           \* run_once's local `state` while a cycle runs
  changed,         \* run_once's local `changed`
  cutoff_ts,       \* run_once's local `cutoff_ts`
  sent_ttl_cutoff, \* run_once's local `sent_ttl_cutoff`
  pc,              \* "idle" (no process), "loop" (in the for loop)
  idx,             \* position in WATCHLIST of the next ticker of the loop
  cycle,           \* cycles started so far
  saves,           \* save_state calls of the current cycle
  outbox,          \* every message handed to notify_telegram_html, in order
  ev               \* what the last step did

vars == <<watch, clock, disk, state, changed, cutoff_ts, sent_ttl_cutoff,
          pc, idx, cycle, saves, outbox, ev>>

(* ------------------------------ UTILITIES ----------------------------- *)
\* state.json: missing, or holding the JSON text of a state, or a text that
\* json.loads rejects (what is left of the text of a state)
NoFile == [kind |-> "missing", data |-> <<>>]
JsonFile(st) == [kind |-> "json", data |-> st]
BrokenFile(st) == [kind |-> "text", data |-> st]
EmptyMap == <<>>
EmptyState == [seen_ids |-> EmptyMap, last_alert |-> EmptyMap, sent_ids |-> EmptyMap]

\* dict.get(k, d)
Get(m, k, d) == IF k \in DOMAIN m THEN m[k] ELSE d
\* m[k] = v
Put(m, k, v) == [x \in (DOMAIN m) \cup {k} |-> IF x = k THEN v ELSE m[x]]

now_ts == clock

\* load_state without the try/except: what is left of the text is used
load_state_Unguarded(file) == IF file.kind # "missing" THEN file.data ELSE EmptyState

\* Lines 41-50: the parsed file if it exists and parses, the empty state if
\* it is missing or json.loads (or the read) raises.
load_state(file) == IF file.kind = "json" THEN file.data ELSE EmptyState

\* json.dumps of a dict with string keys and integer leaves, which
\* json.loads reads back as the same dict: the file holds the record.
save_state(st) == JsonFile(st)

hsha(u) == <<"sha1", u>>

Abs(x) == IF x < 0 THEN -x ELSE x

\* "|".join(urls)
RECURSIVE Join(_)
Join(urls) ==
  IF urls = <<>> THEN <<>>
  ELSE IF Len(urls) = 1 THEN <<urls[1]>>
  ELSE <<urls[1], "|">> \o Join(Tail(urls))

\* sum(h["score"] for h in hits)
RECURSIVE SumScores(_)
SumScores(hits) == IF hits = <<>> THEN 0 ELSE Head(hits).score + SumScores(Tail(hits))

\* Stable sorts, as list.sort / sorted are: equal keys keep their order,
\* also with reverse=True.
RECURSIVE InsertDesc(_, _, _)
InsertDesc(s, x, key) ==
  IF s = <<>> THEN <<x>>
  ELSE IF Head(s)[key] >= x[key] THEN <<Head(s)>> \o InsertDesc(Tail(s), x, key)
  ELSE <<x>> \o s

RECURSIVE InsertAsc(_, _, _)
InsertAsc(s, x, key) ==
  IF s = <<>> THEN <<x>>
  ELSE IF Head(s)[key] <= x[key] THEN <<Head(s)>> \o InsertAsc(Tail(s), x, key)
  ELSE <<x>> \o s

RECURSIVE SortDesc(_, _)
SortDesc(s, key) ==
  IF s = <<>> THEN <<>>
  ELSE InsertDesc(SortDesc(SubSeq(s, 1, Len(s) - 1), key), s[Len(s)], key)

RECURSIVE SortAsc(_, _)
SortAsc(s, key) ==
  IF s = <<>> THEN <<>>
  ELSE InsertAsc(SortAsc(SubSeq(s, 1, Len(s) - 1), key), s[Len(s)], key)

Take(s, n) == SubSeq(s, 1, IF Len(s) < n THEN Len(s) ELSE n)

(* -------------------------------- FETCH ------------------------------- *)
\* fetch_items: the entries of the feed as items, newest first.
fetch_items(entries) == SortDesc(entries, "pub_ts")

NumKinds == Len(Kinds)
EntryOf(table, k, cutoff) ==
  [url |-> table[k].url, score |-> table[k].score, pub_ts |-> cutoff + table[k].off]

\* The feeds a fetch can return, as sequences of kinds: every multiset of at
\* most MaxItems entries, in one order each.
ShapesOver(n, max) ==
  UNION {{s \in [1..m -> 1..n] : \A i \in 1..(m - 1) : s[i] <= s[i + 1]} : m \in 0..max}
FeedShapes == ShapesOver(NumKinds, MaxItems)
WideShapes == ShapesOver(Len(WideKinds), MaxWide)
FeedOf(table, shape, cutoff) == [i \in 1..Len(shape) |-> EntryOf(table, shape[i], cutoff)]

(* -------------------------------- MAIN -------------------------------- *)
\* Line 204 with > for >=
Prune_Strict(sent, cutoff) == [k \in {x \in DOMAIN sent : sent[x] > cutoff} |-> sent[k]]

\* Line 204: prune old sent_ids.
Prune(sent, cutoff) == [k \in {x \in DOMAIN sent : sent[x] >= cutoff} |-> sent[k]]

\* Lines 214-219 without the test of line 217
RECURSIVE Ingest_Overwrite(_, _)
Ingest_Overwrite(seen, items) ==
  IF items = <<>> THEN seen
  ELSE Ingest_Overwrite(Put(seen, hsha(Head(items).url), Head(items).pub_ts), Tail(items))

\* Lines 217-218 moved under the test of line 220
RECURSIVE Ingest_InWindow(_, _)
Ingest_InWindow(seen, items) ==
  IF items = <<>> THEN seen
  ELSE LET h == hsha(Head(items).url)
       IN Ingest_InWindow(IF h \notin DOMAIN seen /\ Head(items).pub_ts >= cutoff_ts
                            THEN Put(seen, h, Head(items).pub_ts) ELSE seen,
                          Tail(items))

\* Lines 214-219: first sight of a hash records the item's pub_ts.
RECURSIVE Ingest(_, _)
Ingest(seen, items) ==
  IF items = <<>> THEN seen
  ELSE LET h == hsha(Head(items).url)
       IN Ingest(IF h \notin DOMAIN seen THEN Put(seen, h, Head(items).pub_ts) ELSE seen,
                 Tail(items))

\* Line 219 outside the test of line 217
Dirtied_Always(seen, items) == items # <<>>

\* Lines 217-219: `changed = True` for an item whose hash is not in `seen`.
\* A hash the loop itself added is in `seen` from then on, so the flag is set
\* exactly when some item's hash was not there before the loop.
Dirtied(seen, items) == \E i \in DOMAIN items : hsha(items[i].url) \notin DOMAIN seen

\* Line 220 with > for >=
InWindow_Strict(it, cutoff) == it.pub_ts > cutoff

\* Lines 220-221
InWindow(it, cutoff) == it.pub_ts >= cutoff
WindowHits(items, cutoff) == SelectSeq(items, LAMBDA it : InWindow(it, cutoff))

\* Lines 224-225 (and 157-158)
IsPos(x) == x.score >= STRONG_POS
IsNeg(x) == x.score <= STRONG_NEG
PosHits(hits) == SelectSeq(hits, IsPos)
NegHits(hits) == SelectSeq(hits, IsNeg)

\* Line 226 with > for >=
HasCluster_Strict(pos, neg) == Len(pos) > CLUSTER_COUNT \/ Len(neg) > CLUSTER_COUNT

\* Line 226
HasCluster(pos, neg) == Len(pos) >= CLUSTER_COUNT \/ Len(neg) >= CLUSTER_COUNT

\* Line 231 with > for >=
SideHits_TieToNeg(pos, neg) == IF SumScores(pos) > Abs(SumScores(neg)) THEN pos ELSE neg

\* Lines 231-233 (and 159-162)
SideHits(pos, neg) == IF SumScores(pos) >= Abs(SumScores(neg)) THEN pos ELSE neg
IsBullish(side_hits) == side_hits # <<>> /\ side_hits[1].score > 0
SideSorted(side_hits) ==
  IF IsBullish(side_hits) THEN SortDesc(side_hits, "score") ELSE SortAsc(side_hits, "score")

\* Lines 234-235
TopUrls(side_sorted) == [i \in 1..Len(Take(side_sorted, TOP_N)) |-> side_sorted[i].url]
Signature(top_urls) == hsha(Join(top_urls))

\* Variants of the two gates of lines 238 and 244, each with one slip: the
\* signature never looked up, the cooldown compared in minutes, the cooldown
\* skipped.
SigBlocked_NoLookup(st, sig, now) == now - 0 < cooldownSeconds
TickerCooling_Minutes(st, tkr, now) == now - Get(st.last_alert, tkr, 0) < ALERT_COOLDOWN_MIN
TickerCooling_Skipped(st, tkr, now) == FALSE
\* the cooldown of line 244 taken over all tickers
TickerCooling_AnyTicker(st, tkr, now) ==
  \E t \in DOMAIN st.last_alert : now - st.last_alert[t] < cooldownSeconds

\* Lines 237-238 and 243-244
SigBlocked(st, sig, now) == now - Get(st.sent_ids, sig, 0) < cooldownSeconds
TickerCooling(st, tkr, now) == now - Get(st.last_alert, tkr, 0) < cooldownSeconds

\* format_alert_html, as far as the side and the headlines go
format_alert_html(ticker, window_hits) ==
  LET pos_hits == PosHits(window_hits)
      neg_hits == NegHits(window_hits)
      side_hits == SideHits(pos_hits, neg_hits)
  IN [ticker |-> ticker,
      side |-> IF IsBullish(side_hits) THEN "Bullish" ELSE "Bearish",
      top |-> TopUrls(SideSorted(side_hits))]

\* Lines 251-253 without line 252
RecordAlert_NoLastAlert(st, tkr, sig, now) == [st EXCEPT !.sent_ids = Put(@, sig, now)]

\* Lines 251-253
RecordAlert(st, tkr, sig, now) ==
  [st EXCEPT !.last_alert = Put(@, tkr, now), !.sent_ids = Put(@, sig, now)]

\* Lines 209-254: the body of the loop for one ticker, on the items fetched.
\* op names the exit taken: the `continue` of line 227, 240 or 245, or the
\* end of the body after the alert was sent.
LoopBody(st, tkr, items, now, cutoff) ==
  LET seen == Get(st.seen_ids, tkr, EmptyMap)
      seen2 == Ingest(seen, items)
      st2 == [st EXCEPT !.seen_ids = Put(@, tkr, seen2)]
      window_hits == WindowHits(items, cutoff)
      pos == PosHits(window_hits)
      neg == NegHits(window_hits)
      top_urls == TopUrls(SideSorted(SideHits(pos, neg)))
      sig == Signature(top_urls)
      quiet(why) == [state |-> st2, changed |-> Dirtied(seen, items), op |-> why,
                     top |-> top_urls, window |-> window_hits, msg |-> <<>>]
  IN IF ~HasCluster(pos, neg) THEN quiet("nocluster")
     ELSE IF SigBlocked(st2, sig, now) THEN quiet("sigblocked")
     ELSE IF TickerCooling(st2, tkr, now) THEN quiet("cooling")
     ELSE [state |-> RecordAlert(st2, tkr, sig, now), changed |-> TRUE, op |-> "sent",
           top |-> top_urls, window |-> window_hits,
           msg |-> <<format_alert_html(tkr, window_hits)>>]

(* --------------------------- what a step saw -------------------------- *)
\* The feed of a step, counted apart from the code: strong entries inside the
\* window, and whether an entry arrived for a URL already recorded with
\* another timestamp.
StrongPosInWindow(items, cutoff) ==
  Cardinality({i \in DOMAIN items : items[i].pub_ts >= cutoff /\ items[i].score >= STRONG_POS})
StrongNegInWindow(items, cutoff) ==
  Cardinality({i \in DOMAIN items : items[i].pub_ts >= cutoff /\ items[i].score <= STRONG_NEG})
Refetched(seen, items) ==
  \E i \in DOMAIN items :
     \/ /\ hsha(items[i].url) \in DOMAIN seen
        /\ seen[hsha(items[i].url)] # items[i].pub_ts
     \/ \E j \in DOMAIN items :
          items[j].url = items[i].url /\ items[j].pub_ts # items[i].pub_ts

\* The publication times of the window, and those of the fetched items left
\* out of it; whether the window holds two items with one content hash; the
\* score sums of the strong items of the window; the URLs fetched.
PubInside(window) == {window[i].pub_ts : i \in DOMAIN window}
PubOutside(items, window) ==
  {items[i].pub_ts : i \in {k \in DOMAIN items : \A j \in DOMAIN window : window[j] # items[k]}}
HasDuplicate(window) ==
  \E i, j \in DOMAIN window : i < j /\ hsha(window[i].url) = hsha(window[j].url)
RECURSIVE StrongSum(_, _, _)
StrongSum(items, cutoff, sign) ==
  IF items = <<>> THEN 0
  ELSE (IF /\ Head(items).pub_ts >= cutoff
           /\ \/ sign > 0 /\ Head(items).score >= STRONG_POS
              \/ sign < 0 /\ Head(items).score <= STRONG_NEG
        THEN Head(items).score ELSE 0) + StrongSum(Tail(items), cutoff, sign)
UrlsOf(items) == {items[i].url : i \in DOMAIN items}

TickerOps == {"nocluster", "sigblocked", "cooling", "sent"}
Event(op) ==
  [op |-> op, tkr |-> "", npos |-> 0, nneg |-> 0, now |-> 0, top |-> <<>>,
   refetch |-> FALSE, inside |-> {}, outside |-> {}, dup |-> FALSE,
   spos |-> 0, sneg |-> 0, urls |-> {}]

(* ------------------------------ Telegram ------------------------------ *)
\* notify_telegram_html: the text is printed, or posted; an exception of the
\* post is caught at line 133.  The caller gets None in every case.  The
\* outbox keeps the attempt and how it ended.
notify_telegram_html(text_html, how, now, c) ==
  [text |-> text_html, at |-> now, cycle |-> c, ok |-> how = "posted"]

(* ------------------------------ the steps ----------------------------- *)

InitWith(watchlist) ==
  /\ watch = watchlist
  /\ clock = StartClock
  /\ disk = NoFile
  /\ state = EmptyState
  /\ changed = FALSE
  /\ cutoff_ts = 0
  /\ sent_ttl_cutoff = 0
  /\ pc = "idle"
  /\ idx = 0
  /\ cycle = 0
  /\ saves = 0
  /\ outbox = <<>>
  /\ ev = Event("init")

\* run_once, lines 200-206, started `d` seconds after the cycle before
BeginCycleAfter(steps) ==
  /\ pc = "idle"
  /\ cycle < MaxCycles
  /\ \E d \in (IF cycle = 0 THEN {0} ELSE steps) : clock' = clock + d
  /\ LET loaded == load_state(disk)
         ttl_cut == now_ts' - ttlSeconds
     IN /\ cutoff_ts' = now_ts' - lookbackSeconds
        /\ sent_ttl_cutoff' = ttl_cut
        /\ state' = [loaded EXCEPT !.sent_ids = Prune(@, ttl_cut)]
  /\ changed' = FALSE
  /\ pc' = "loop"
  /\ idx' = 1
  /\ cycle' = cycle + 1
  /\ saves' = 0
  /\ ev' = Event("begin")
  /\ UNCHANGED <<watch, disk, outbox>>
BeginCycle == BeginCycleAfter(ClockSteps)

\* run_once, lines 208-254: one iteration of the loop, on a feed built from
\* `table` in one of `shapes`, the notification ending in one of `outcomes`
ProcessTickerOf(table, shapes, outcomes) ==
  /\ pc = "loop"
  /\ idx <= Len(watch)
  /\ \E shape \in shapes :
     \E items \in {fetch_items(FeedOf(table, shape, cutoff_ts))} :
     \E r \in {LoopBody(state, watch[idx], items, now_ts, cutoff_ts)} :
     \E how \in (IF r.msg = <<>> THEN {"none"} ELSE outcomes) :
          /\ state' = r.state
          /\ changed' = (changed \/ r.changed)
          /\ outbox' = outbox \o [i \in DOMAIN r.msg |->
                                     notify_telegram_html(r.msg[i], how, now_ts, cycle)]
          /\ ev' = [op |-> r.op, tkr |-> watch[idx], now |-> now_ts, top |-> r.top,
                    npos |-> StrongPosInWindow(items, cutoff_ts),
                    nneg |-> StrongNegInWindow(items, cutoff_ts),
                    refetch |-> Refetched(Get(state.seen_ids, watch[idx], EmptyMap),
                                          items),
                    inside |-> PubInside(r.window),
                    outside |-> PubOutside(items, r.window),
                    dup |-> HasDuplicate(r.window),
                    spos |-> StrongSum(items, cutoff_ts, 1),
                    sneg |-> StrongSum(items, cutoff_ts, -1),
                    urls |-> UrlsOf(items)]
  /\ idx' = idx + 1
  /\ UNCHANGED <<watch, clock, disk, cutoff_ts, sent_ttl_cutoff, pc, cycle, saves>>
ProcessTicker == ProcessTickerOf(Kinds, FeedShapes, {"posted"})

\* run_once, lines 256-257
EndCycle ==
  /\ pc = "loop"
  /\ idx > Len(watch)
  /\ IF changed
       THEN disk' = save_state(state) /\ saves' = saves + 1
       ELSE UNCHANGED <<disk, saves>>
  /\ pc' = "done"
  /\ ev' = Event("end")
  /\ UNCHANGED <<watch, clock, state, changed, cutoff_ts, sent_ttl_cutoff, idx, cycle,
                 outbox>>

\* The process exits: its locals are gone.  Time passes until the scheduler
\* starts the next cycle.
Exit ==
  /\ pc = "done"
  /\ pc' = "idle"
  /\ state' = EmptyState
  /\ changed' = FALSE
  /\ cutoff_ts' = 0
  /\ sent_ttl_cutoff' = 0
  /\ idx' = 0
  /\ saves' = 0
  /\ ev' = Event("exit")
  /\ UNCHANGED <<watch, clock, disk, cycle, outbox>>

Init == InitWith(WATCHLIST)
Next == BeginCycle \/ ProcessTicker \/ EndCycle \/ Exit
Spec == Init /\ [][Next]_vars

\* The same program under a clock that is set back between two cycles.
BeginCycleSetBack == BeginCycleAfter({- cooldownSeconds, -1})
NextSkew == Next \/ BeginCycleSetBack
SpecSkew == Init /\ [][NextSkew]_vars

\* The same program when the process can die inside the loop, between two
\* tickers (killed, or line 210 raising): nothing is written.
Crash ==
  /\ pc = "loop"
  /\ 1 < idx /\ idx <= Len(watch)
  /\ pc' = "idle"
  /\ state' = EmptyState
  /\ changed' = FALSE
  /\ cutoff_ts' = 0
  /\ sent_ttl_cutoff' = 0
  /\ idx' = 0
  /\ saves' = 0
  /\ ev' = Event("crash")
  /\ UNCHANGED <<watch, clock, disk, cycle, outbox>>
NextCrash == Next \/ Crash
SpecCrash == InitWith(WATCHLIST2) /\ [][NextCrash]_vars

\* The same program with two tickers on the watchlist.
InitMulti == InitWith(WATCHLIST2)
SpecMulti == InitMulti /\ [][Next]_vars

\* The same program on the wider feed, run once per cooldown period.
BeginCycleOnSchedule == BeginCycleAfter({cooldownSeconds})
ProcessTickerWide == ProcessTickerOf(WideKinds, WideShapes, {"posted"})
NextWide == BeginCycleOnSchedule \/ ProcessTickerWide \/ EndCycle \/ Exit
SpecWide == Init /\ [][NextWide]_vars

\* The same program when the fetch of a ticker can fail.  feedparser.parse
\* reports some failures in its result, with no entries (the empty feed of
\* ProcessTicker), and lets others through as exceptions (a timeout or a
\* reset while the response is read); run_once has no handler around line
\* 210, so the exception ends the process before lines 256-257.
FetchRaises ==
  /\ pc = "loop"
  /\ idx <= Len(watch)
  /\ pc' = "idle"
  /\ state' = EmptyState
  /\ changed' = FALSE
  /\ cutoff_ts' = 0
  /\ sent_ttl_cutoff' = 0
  /\ idx' = 0
  /\ saves' = 0
  /\ ev' = [Event("raised") EXCEPT !.tkr = watch[idx]]
  /\ UNCHANGED <<watch, clock, disk, cycle, outbox>>
NextFetch == Next \/ FetchRaises
SpecFetch == InitMulti /\ [][NextFetch]_vars

\* The same program when, between two cycles, state.json is removed or left
\* with a text that does not parse (write_text of line 52 cut short, or the
\* file edited).
FileLost ==
  /\ pc = "idle"
  /\ disk.kind = "json"
  /\ disk' \in {NoFile, BrokenFile(disk.data)}
  /\ ev' = Event("lost")
  /\ UNCHANGED <<watch, clock, state, changed, cutoff_ts, sent_ttl_cutoff, pc, idx,
                 cycle, saves, outbox>>
NextLost == Next \/ FileLost
SpecLost == Init /\ [][NextLost]_vars

\* The same program when the post to Telegram can fail (line 132 raising).
ProcessTickerFailing == ProcessTickerOf(Kinds, FeedShapes, {"failed"})
NextFail == Next \/ ProcessTickerFailing
SpecFail == Init /\ [][NextFail]_vars

(* ============================== properties ============================ *)
Persisted == load_state(disk)
\* a step of the loop, for the ticker watch[idx]
TickerStep == pc = "loop" /\ idx' = idx + 1
\* the messages of the cycle `c`, for the ticker `t`
SentIn(c, t) == {i \in DOMAIN outbox : outbox[i].cycle = c /\ outbox[i].text.ticker = t}
\* an alert went out for ticker `t`, or for the URL list `top`, less than a
\* cooldown before `now`
RecentForTicker(t, now) ==
  \E i \in DOMAIN outbox : outbox[i].text.ticker = t /\ now - outbox[i].at < cooldownSeconds
RecentForList(top, now) ==
  \E i \in DOMAIN outbox : outbox[i].text.top = top /\ now - outbox[i].at < cooldownSeconds

\* C1 -- Per-ticker cooldown: a ticker processed while now - last_alert[ticker]
\* is below ALERT_COOLDOWN_MIN*60 gets no notification in that step, whatever
\* the feed returned.
C1_TickerCooldown ==
  [][(/\ TickerStep
      /\ watch[idx] \in DOMAIN state.last_alert
      /\ clock - state.last_alert[watch[idx]] < ALERT_COOLDOWN_MIN * 60)
     => outbox' = outbox]_vars
\* a cluster with a new URL list met the closed per-ticker gate
C1_Witness == ev.op = "cooling" /\ (ev.npos >= CLUSTER_COUNT \/ ev.nneg >= CLUSTER_COUNT)

\* C4 -- Cluster gate: an alert is sent only when the window holds at least
\* CLUSTER_COUNT strong items on one side; and with CLUSTER_COUNT or more on a
\* side the alert is sent unless a gate is closed, which means that an alert
\* for this ticker, or for this URL list, went out less than a cooldown ago.
C4_ClusterGate ==
  ev.op \in TickerOps =>
    LET cluster == ev.npos >= CLUSTER_COUNT \/ ev.nneg >= CLUSTER_COUNT
    IN /\ ev.op = "sent" => cluster
       /\ ~cluster => ev.op = "nocluster"
       /\ cluster => ev.op # "nocluster"
       /\ ev.op = "cooling" => RecentForTicker(ev.tkr, ev.now)
       /\ ev.op = "sigblocked" => RecentForList(ev.top, ev.now)
\* exactly CLUSTER_COUNT strong items on one side, fewer on the other, alert sent
C4_Witness ==
  /\ ev.op = "sent"
  /\ \/ ev.npos = CLUSTER_COUNT /\ ev.nneg < CLUSTER_COUNT
     \/ ev.nneg = CLUSTER_COUNT /\ ev.npos < CLUSTER_COUNT

\* C5 -- Emission postcondition: a ticker alerted in a cycle got exactly one
\* message in it, and the record written at the end of the cycle holds the
\* cycle's clock reading as last_alert[ticker] and as sent_ids[signature]; from
\* no prior state, CLUSTER_COUNT strong positive items in the window and no
\* strong negative one give exactly one alert, a Bullish one.
C5_EmissionPost ==
  /\ pc = "done" =>
       \A i \in DOMAIN outbox :
          outbox[i].cycle = cycle =>
            LET t == outbox[i].text.ticker
                sig == hsha(Join(outbox[i].text.top))
            IN /\ Cardinality(SentIn(cycle, t)) = 1
               /\ outbox[i].at = clock
               /\ t \in DOMAIN Persisted.last_alert /\ Persisted.last_alert[t] = clock
               /\ sig \in DOMAIN Persisted.sent_ids /\ Persisted.sent_ids[sig] = clock
  /\ (cycle = 1 /\ idx = 2 /\ ev.op \in TickerOps /\ ev.npos >= CLUSTER_COUNT /\ ev.nneg = 0)
       => /\ ev.op = "sent"
          /\ Len(outbox) = 1
          /\ outbox[1].text.side = "Bullish"
          /\ outbox[1].text.ticker = ev.tkr
\* the first cycle ended after its one Bullish alert
C5_Witness ==
  pc = "done" /\ cycle = 1 /\ Len(outbox) = 1 /\ outbox[1].text.side = "Bullish"

\* C7 -- seen_ids first-write-wins: a hash recorded in seen_ids[ticker] keeps
\* its timestamp and is never removed, in the running cycle's state and in
\* the persisted record, also when the URL arrives again with another
\* publication timestamp.
Keeps(old, new) ==
  \A t \in DOMAIN old.seen_ids :
     \A h \in DOMAIN old.seen_ids[t] :
        /\ t \in DOMAIN new.seen_ids
        /\ h \in DOMAIN new.seen_ids[t]
        /\ new.seen_ids[t][h] = old.seen_ids[t][h]
C7_SeenFirstWriteWins ==
  [][/\ Keeps(Persisted, Persisted')
     /\ (pc = "loop" /\ pc' # "idle") => Keeps(state, state')
     /\ (pc = "idle" /\ pc' = "loop") => Keeps(Persisted, state')]_vars
\* in a later cycle a URL recorded by an earlier one arrived with another timestamp
C7_Witness ==
  /\ cycle = 2 /\ pc = "loop" /\ ev.op \in TickerOps /\ ev.refetch
  /\ ev.tkr \in DOMAIN Persisted.seen_ids
  /\ \E h \in DOMAIN Persisted.seen_ids[ev.tkr] :
        Persisted.seen_ids[ev.tkr][h] < cutoff_ts - 1

\* C8 -- Prune before lookup: while the loop runs, the state holds no sent_ids
\* entry older than the cycle's TTL cutoff, and holds every persisted entry
\* that is not older (as it was, or as an alert of the cycle rewrote it); a signature that blocks an alert was sent within the TTL.
C8_PruneBeforeLookup ==
  /\ pc = "loop" =>
       /\ sent_ttl_cutoff = clock - SENT_TTL_HOURS * 3600
       /\ \A k \in DOMAIN state.sent_ids : state.sent_ids[k] >= sent_ttl_cutoff
       /\ \A k \in DOMAIN Persisted.sent_ids :
             Persisted.sent_ids[k] >= sent_ttl_cutoff
               => k \in DOMAIN state.sent_ids /\ state.sent_ids[k] >= Persisted.sent_ids[k]
  /\ ev.op = "sigblocked" =>
       \E i \in DOMAIN outbox :
          outbox[i].text.top = ev.top /\ outbox[i].at >= ev.now - SENT_TTL_HOURS * 3600
\* the cycle dropped an entry one second too old
C8_Witness ==
  /\ pc = "loop"
  /\ \E k \in DOMAIN Persisted.sent_ids : Persisted.sent_ids[k] = sent_ttl_cutoff - 1
\* the cycle kept an entry exactly one TTL old
C8_WitnessKept ==
  /\ pc = "loop"
  /\ \E k \in DOMAIN state.sent_ids : state.sent_ids[k] = sent_ttl_cutoff

\* C9 -- Persist on any mutation: when a cycle has completed, the persisted
\* record equals the state the cycle ended with (hashes recorded, last_alert,
\* sent_ids), whatever the cycle changed, pruning included; and the cycle
\* wrote the record at most once.
SeenEntries(st) ==
  UNION {{<<t, h, st.seen_ids[t][h]>> : h \in DOMAIN st.seen_ids[t]} : t \in DOMAIN st.seen_ids}
C9_PersistOnMutation ==
  pc = "done" =>
    /\ SeenEntries(Persisted) = SeenEntries(state)
    /\ Persisted.last_alert = state.last_alert
    /\ Persisted.sent_ids = state.sent_ids
    /\ saves <= 1

\* C6 -- last_alert monotonicity: every value written to last_alert[ticker],
\* in the running cycle's state and in the persisted record, is at least the
\* value it replaces, also when the clock is set back between two cycles.
NotLowered(old, new) ==
  \A t \in DOMAIN old.last_alert :
     t \in DOMAIN new.last_alert /\ new.last_alert[t] >= old.last_alert[t]
C6_LastAlertMonotone ==
  [][/\ NotLowered(Persisted, Persisted')
     /\ (pc = "loop" /\ pc' # "idle") => NotLowered(state, state')
     /\ (pc = "idle" /\ pc' = "loop") => NotLowered(Persisted, state')]_vars
\* a cycle started on a clock set back below the ticker's last alert and met
\* a cluster for it
C6_Witness ==
  /\ pc = "loop" /\ ev.op \in TickerOps \ {"nocluster"}
  /\ ev.tkr \in DOMAIN Persisted.last_alert
  /\ clock < Persisted.last_alert[ev.tkr]
\* a cycle replaced the ticker's last_alert by a later reading
C6_WitnessReplaced ==
  /\ pc = "done"
  /\ \E i, j \in DOMAIN outbox :
        i < j /\ outbox[i].text.ticker = outbox[j].text.ticker /\ outbox[i].at < outbox[j].at

\* C2 -- Signature suppression: no two cycles whose alerts are less than a
\* cooldown apart both send an alert for the same ordered top-5 URL list.
C2_SignatureSuppression ==
  \A i, j \in DOMAIN outbox :
     (/\ outbox[i].cycle # outbox[j].cycle
      /\ outbox[i].text.top = outbox[j].text.top)
     => \/ outbox[j].at - outbox[i].at >= ALERT_COOLDOWN_MIN * 60
        \/ outbox[i].at - outbox[j].at >= ALERT_COOLDOWN_MIN * 60
\* the second cycle, less than a cooldown after the first, met for the other
\* ticker the list the first cycle alerted on, and the signature gate held
C2_Witness ==
  /\ cycle = 2 /\ ev.op = "sigblocked"
  /\ \E i \in DOMAIN outbox :
        /\ outbox[i].cycle = 1
        /\ outbox[i].text.top = ev.top
        /\ outbox[i].text.ticker # ev.tkr
        /\ ev.now - outbox[i].at < ALERT_COOLDOWN_MIN * 60
  /\ ~ \E i \in DOMAIN outbox : outbox[i].text.ticker = ev.tkr

\* C10 -- Ticker independence.  The ticker about to be processed is compared,
\* on every feed it can get, with itself processed first in the cycle, on the
\* state the cycle started from.
CycleStart == [Persisted EXCEPT !.sent_ids = Prune(@, sent_ttl_cutoff)]
After(st, shape) ==
  LoopBody(st, watch[idx], fetch_items(FeedOf(Kinds, shape, cutoff_ts)), clock, cutoff_ts)
SameSeen(r, r0) == r.state.seen_ids[watch[idx]] = r0.state.seen_ids[watch[idx]]
SameAlert(r, r0) ==
  /\ (r.op = "sent") = (r0.op = "sent")
  /\ Get(r.state.last_alert, watch[idx], 0) = Get(r0.state.last_alert, watch[idx], 0)
\* another ticker was alerted earlier in this cycle on the list `top`
AlertedThisCycleOn(top) ==
  \E i \in DOMAIN outbox :
     outbox[i].cycle = cycle /\ outbox[i].text.top = top /\ outbox[i].text.ticker # watch[idx]
\* C10 as claimed: the emission for a ticker, its seen_ids and its last_alert do not
\* depend on the tickers processed before it
C10_TickerIndependence ==
  (pc = "loop" /\ idx <= Len(watch)) =>
    \A shape \in FeedShapes :
       LET r == After(state, shape)
           r0 == After(CycleStart, shape)
       IN SameSeen(r, r0) /\ SameAlert(r, r0)
\* C10 as amended: seen_ids of the ticker never depend on the others; its emission
\* and its last_alert do only when an earlier ticker of the cycle was alerted
\* on the same top-5 URL list, which closes the shared signature gate
C10_IndependentButForSignature ==
  (pc = "loop" /\ idx <= Len(watch)) =>
    \A shape \in FeedShapes :
       LET r == After(state, shape)
           r0 == After(CycleStart, shape)
       IN /\ SameSeen(r, r0)
          /\ \/ SameAlert(r, r0)
             \/ r0.op = "sent" /\ r.op = "sigblocked" /\ AlertedThisCycleOn(r.top)
\* both tickers were alerted in one cycle, on different lists
C10_Witness ==
  /\ pc = "loop" /\ idx = 3 /\ ev.op = "sent"
  /\ \E i \in DOMAIN outbox :
        outbox[i].cycle = cycle /\ outbox[i].text.ticker # ev.tkr /\ outbox[i].text.top # ev.top

\* C3 -- Immediate persistence on emission: an alert sent for a ticker is on
\* the persisted record before the next ticker is processed, so that a cycle
\* that dies between two tickers and is started again does not send the same
\* alert (same ticker, same top-5 list, within the cooldown) a second time.
C3_NoResendAfterCrash ==
  \A i, j \in DOMAIN outbox :
     (/\ i < j
      /\ outbox[i].text.ticker = outbox[j].text.ticker
      /\ outbox[i].text.top = outbox[j].text.top)
     => outbox[j].at - outbox[i].at >= ALERT_COOLDOWN_MIN * 60

\* C11 -- Failed delivery is retried by the next run: a ticker gets at most
\* one delivery attempt per cycle, and a failed attempt closes neither gate:
\* whenever the per-ticker gate or the signature gate stops a cluster, an
\* alert for that ticker, or for that URL list, was delivered less than a
\* cooldown before.
C11_FailedDeliveryRetried ==
  /\ \A t \in {watch[i] : i \in DOMAIN watch} : Cardinality(SentIn(cycle, t)) <= 1
  /\ ev.op = "cooling" =>
       \E i \in DOMAIN outbox :
          /\ outbox[i].ok /\ outbox[i].text.ticker = ev.tkr
          /\ ev.now - outbox[i].at < ALERT_COOLDOWN_MIN * 60
  /\ ev.op = "sigblocked" =>
       \E i \in DOMAIN outbox :
          /\ outbox[i].ok /\ outbox[i].text.top = ev.top
          /\ ev.now - outbox[i].at < ALERT_COOLDOWN_MIN * 60

\* C12 -- Per-ticker failure isolation: a cycle whose fetch failed for one
\* ticker still goes through every ticker of the watchlist and ends at lines
\* 256-257, where what the cycle changed is written: the process of a started
\* cycle stops only after the whole list, with the record equal to its state
\* if the state was changed.
C12_FetchFailureIsolated ==
  [][(pc # "idle" /\ pc' = "idle")
       => /\ idx > Len(watch)
          /\ changed => Persisted' = state]_vars

\* C13 -- Window upper bound: every item placed in the window of a cycle was
\* published in [now - LOOKBACK_MIN*60, now]; an item published later than
\* now is not in the window.
C13_WindowUpperBound ==
  ev.op \in TickerOps =>
    \A t \in ev.inside : ev.now - LOOKBACK_MIN * 60 <= t /\ t <= ev.now

\* C14 -- Window lower boundary: of the fetched items, one published at
\* now - LOOKBACK_MIN*60 - 1 is left out of the window, one published at
\* now - LOOKBACK_MIN*60 or one second later is in it; nothing in the window
\* is older than now - LOOKBACK_MIN*60 and nothing left out is younger.
C14_WindowLowerEdge ==
  ev.op \in TickerOps =>
    LET edge == ev.now - LOOKBACK_MIN * 60
    IN /\ (edge - 1) \notin ev.inside
       /\ edge \notin ev.outside
       /\ (edge + 1) \notin ev.outside
       /\ \A t \in ev.inside : t >= edge
       /\ \A t \in ev.outside : t < edge
\* one fetch returned items on the edge, one second inside and one second
\* outside; the first two are in the window, the third is not
C14_Witness ==
  /\ ev.op \in TickerOps
  /\ (ev.now - LOOKBACK_MIN * 60) \in ev.inside
  /\ (ev.now - LOOKBACK_MIN * 60 + 1) \in ev.inside
  /\ (ev.now - LOOKBACK_MIN * 60 - 1) \in ev.outside

\* C15 -- Dominant side: when a cluster exists the side taken is the positive
\* one if the score sum of the strong positive items of the window is at
\* least the absolute value of the sum of the strong negative ones, the
\* negative one otherwise.  The top list has the items of that side (up to
\* TOP_N), the signature recorded is that of this list, and the message
\* format_alert_html builds carries the same list under the label of that side.
C15_DominantSide ==
  (ev.op \in TickerOps \ {"nocluster"}) =>
    LET positive == ev.spos >= Abs(ev.sneg)
        nside == IF positive THEN ev.npos ELSE ev.nneg
    IN /\ Len(ev.top) = (IF nside < TOP_N THEN nside ELSE TOP_N)
       /\ ev.op = "sent" =>
            LET m == outbox[Len(outbox)]
            IN /\ m.text.ticker = ev.tkr /\ m.at = ev.now
               /\ m.text.top = ev.top
               /\ (m.text.side = "Bullish") = positive
               /\ (m.text.side = "Bearish") = ~positive
               /\ pc = "loop" =>
                    /\ hsha(Join(ev.top)) \in DOMAIN state.sent_ids
                    /\ state.sent_ids[hsha(Join(ev.top))] = ev.now
\* a tie of the two sums, the negative side having more items: a Bullish alert
C15_Witness ==
  /\ ev.op = "sent" /\ ev.spos = Abs(ev.sneg) /\ ev.npos < ev.nneg
  /\ outbox[Len(outbox)].text.side = "Bullish"
\* the negative sum is the larger one, with strong positive items in the
\* window: a Bearish alert
C15_WitnessBearish ==
  /\ ev.op = "sent" /\ 0 < ev.spos /\ ev.spos < Abs(ev.sneg)
  /\ outbox[Len(outbox)].text.side = "Bearish"

\* C16 -- Ingestion idempotence: on any feed the next ticker can get, a second
\* ingestion of the same items finds every hash recorded, leaves seen_ids as
\* the first one left it and does not set the dirty flag, and the first one
\* sets the flag exactly when it changed seen_ids; and a ticker processed on
\* URLs that were all recorded before keeps its seen_ids, the cycle's dirty
\* flag changing only if an alert is sent.
SeenOf(st, t) == Get(st.seen_ids, t, EmptyMap)
C16_IngestIdempotent ==
  /\ [](pc = "loop" /\ idx <= Len(watch) =>
         \A shape \in FeedShapes :
            LET items == fetch_items(FeedOf(Kinds, shape, cutoff_ts))
                seen == SeenOf(state, watch[idx])
                once == LoopBody(state, watch[idx], items, clock, cutoff_ts)
                twice == LoopBody(once.state, watch[idx], items, clock, cutoff_ts)
            IN /\ twice.state.seen_ids = once.state.seen_ids
               /\ ~twice.changed
               /\ once.op # "sent" =>
                    (once.changed = (SeenOf(once.state, watch[idx]) # seen)))
  /\ [][(/\ TickerStep
          /\ \A u \in ev'.urls : hsha(u) \in DOMAIN SeenOf(state, watch[idx]))
         => /\ SeenOf(state', watch[idx]) = SeenOf(state, watch[idx])
            /\ changed' # changed => ev'.op = "sent"]_vars
\* the second cycle fetched, for a ticker whose hashes the first cycle had
\* recorded, items under the same hashes: seen_ids as persisted, flag not set
C16_Witness ==
  /\ cycle = 2 /\ pc = "loop" /\ ev.op \in TickerOps /\ ev.urls # {}
  /\ ~changed
  /\ ev.tkr \in DOMAIN Persisted.seen_ids
  /\ state.seen_ids[ev.tkr] = Persisted.seen_ids[ev.tkr]
  /\ \A u \in ev.urls : hsha(u) \in DOMAIN Persisted.seen_ids[ev.tkr]

\* C17 -- Ingestion records every fetched item: once a ticker is processed,
\* the hash of every URL its fetch returned is a key of seen_ids[ticker],
\* inside the window or not, cluster or not, and the end of the cycle leaves
\* every recorded hash in the persisted record; a ticker whose window has
\* no cluster leaves last_alert and sent_ids as they were and sends nothing.
C17_EveryItemRecorded ==
  /\ [][TickerStep =>
          /\ \A u \in ev'.urls : hsha(u) \in DOMAIN SeenOf(state', watch[idx])
          /\ ev'.op = "nocluster" =>
               /\ state'.last_alert = state.last_alert
               /\ state'.sent_ids = state.sent_ids
               /\ outbox' = outbox]_vars
  /\ [][(pc = "loop" /\ pc' = "done") =>
          /\ \A t \in DOMAIN state.seen_ids :
                DOMAIN state.seen_ids[t] \subseteq DOMAIN SeenOf(Persisted', t)
          /\ \A u \in ev.urls : hsha(u) \in DOMAIN SeenOf(Persisted', ev.tkr)]_vars
\* the first cycle ended with no alert, and its record holds a hash of an
\* item inside the window and a hash of an item outside of it
C17_Witness ==
  /\ pc = "done" /\ cycle = 1 /\ outbox = <<>>
  /\ \E h, g \in DOMAIN SeenOf(Persisted, watch[1]) :
        /\ Persisted.seen_ids[watch[1]][h] < cutoff_ts
        /\ Persisted.seen_ids[watch[1]][g] >= cutoff_ts
  /\ Persisted.last_alert = EmptyMap /\ Persisted.sent_ids = EmptyMap

\* C18 -- Soft load: a cycle started on a missing or unparsable file starts
\* from the empty state, and goes on as a cycle with no prior state does: its
\* first ticker has recorded exactly the hashes fetched, is alerted whenever
\* its window holds a cluster, and the cycle ends with the record written if
\* anything was recorded.
C18_SoftLoad ==
  /\ [][(pc = "idle" /\ pc' = "loop" /\ disk.kind # "json")
         => state' = EmptyState /\ ~changed']_vars
  /\ [](pc = "loop" /\ idx = 2 /\ disk.kind # "json" =>
         /\ DOMAIN SeenOf(state, ev.tkr) = {hsha(u) : u \in ev.urls}
         /\ (ev.npos >= CLUSTER_COUNT \/ ev.nneg >= CLUSTER_COUNT) => ev.op = "sent"
         /\ ev.op \in {"sent", "nocluster"}
         /\ changed = (ev.urls # {}))
  /\ [][(pc = "loop" /\ pc' = "done" /\ disk.kind # "json" /\ changed)
         => disk' = JsonFile(state)]_vars
\* the record of the first cycle's alert was left unparsable, and the second
\* cycle, less than a cooldown later, sent an alert again
C18_Witness ==
  /\ cycle = 2 /\ pc = "loop" /\ disk.kind = "text" /\ ev.op = "sent"
  /\ disk.data.last_alert # EmptyMap
  /\ Len(outbox) = 2
  /\ outbox[2].at - outbox[1].at < ALERT_COOLDOWN_MIN * 60
\* the same, the record having been removed
C18_WitnessMissing ==
  /\ cycle = 2 /\ pc = "loop" /\ disk.kind = "missing" /\ ev.op = "sent"
  /\ Len(outbox) = 2
  /\ outbox[2].at - outbox[1].at < ALERT_COOLDOWN_MIN * 60

\* C19 -- The emitted side is itself a cluster: the side an alert is built
\* from holds at least CLUSTER_COUNT items of the window, so the message
\* lists at least CLUSTER_COUNT headlines.  Stated for the windows that hold
\* every article once and nothing published after the clock reading.
C19_EmittedSideIsCluster ==
  (ev.op = "sent" /\ ~ev.dup /\ \A t \in ev.inside : t <= ev.now) =>
    /\ (IF ev.spos >= Abs(ev.sneg) THEN ev.npos ELSE ev.nneg) >= CLUSTER_COUNT
    /\ Len(outbox[Len(outbox)].text.top) >= CLUSTER_COUNT

\* C20 -- The window is deduplicated by content hash: the window built for a
\* ticker never holds two items with the same hash.
C20_WindowDeduplicated ==
  ev.op \in TickerOps => ~ev.dup

====
